---- MODULE Spec2Model ----
(***************************************************************************)
(* A model of repo2docker/contentproviders/rdm.py: the RDM content         *)
(* provider (host configuration, detect, fetch, content_id).               *)
(*                                                                         *)
(* Strings are sequences of chunks ("a", "/", "files", ...): a chunk is a  *)
(* piece of text holding no "/", "\", "?" or "#" unless it is that         *)
(* character itself, so prefix tests, splits at "/" and joins work on      *)
(* chunks as they work on characters.  An optional value is the empty      *)
(* sequence (None) or a sequence of one element.                           *)
(***************************************************************************)
EXTENDS Integers, Sequences, FiniteSets, TLC

VARIABLES
    env,         \* os.environ and the file it names: RDM_HOSTS, RDM_HOSTS_JSON
    constructed, \* how RDM() ended: "no" (not called yet), "ok", or the exception
    hosts,       \* self.hosts
    self,        \* per instance: self.project_id, self.path, self.uuid
    clock,       \* the uuid.uuid1() calls made so far in the process
    calls,       \* the detect calls made so far, with what each returned
    spec,        \* the spec dict handed to fetch
    remote,      \* what the remote service has listed so far: folder key -> listing
    filesLeft,   \* how many more files the remote service may list
    foldersLeft, \* how many more storages and folders the remote service may list
    stack,       \* the nested _fetch / _fetch_storage generators, innermost last
    fsFiles,     \* local filesystem: path -> bytes
    fsDirs,      \* local filesystem: the directories
    wroteUnder,  \* for every write: the remote names its local path was built from
    queue,       \* the asyncio.Queue between _fetch_with_error and fetch
    ppc,         \* where the task running _fetch_with_error stands
    cpc,         \* where the consumer of the fetch generator stands
    emitted,     \* the progress lines put on the queue, in order
    raised,      \* the exception _fetch raised, if any
    received,    \* the items the fetch generator yielded to its consumer
    failure      \* the exception the fetch generator raised to its consumer

configVars == <<env, constructed, hosts>>

detectVars == <<self, clock, calls>>

fetchVars == <<spec, remote, filesLeft, foldersLeft, stack, fsFiles, fsDirs, wroteUnder,
               queue, ppc, cpc, emitted, raised, received, failure>>

vars == <<configVars, detectVars, fetchVars>>

-----------------------------------------------------------------------------
(* Bounds of the model. *)

\* remote files the service lists in one fetch
MaxFiles == 2

\* remote storages and folders the service lists in one fetch
MaxFolders == 3

\* host objects in a configured list
MaxHosts == 2

\* detect calls in one behaviour
MaxDetects == 2

\* remote files, and storages and folders, of the fetch that follows detect calls
LifeMaxFiles == 1

LifeMaxFolders == 1

\* remote files, and storages and folders, of the fetch whose ending is checked
FairMaxFiles == 1

FairMaxFolders == 2

-----------------------------------------------------------------------------
(* Values. *)

None == <<>>

Some(x) == <<x>>

\* JSON values, as json.load gives them
JStr(s) == [type |-> "str", s |-> s]

JNum == [type |-> "num"]

JList(items) == [type |-> "list", items |-> items]

\* a JSON object with its "hostname" and "api" keys, each present or not
JDict(hostname, api) == [type |-> "dict", hostname |-> hostname, api |-> api]

\* text that json.load cannot parse
Unparseable == [type |-> "invalid"]

\* the built-in host of lines 21 to 28
DefaultHost ==
    JDict(Some(JList(<< JStr(<<"https://h1", "/">>) >>)), Some(JStr(<<"https://api.h1/v2", "/">>)))

DefaultHosts == JList(<<DefaultHost>>)

SecondHost ==
    JDict(Some(JList(<< JStr(<<"https://h2", "/">>), JStr(<<"https://h3", "/">>) >>)),
          Some(JStr(<<"https://api.h2/v2">>)))

-----------------------------------------------------------------------------
(* __init__: the host configuration. *)

HostnameValues ==
    { None, Some(JList(<<>>)), Some(JList(<< JStr(<<"https://h2", "/">>) >>)),
      Some(JStr(<<"https://h2", "/">>)) }

ApiValues == { None, Some(JStr(<<>>)), Some(JStr(<<"https://api.h2/v2">>)) }

\* what a configured list may hold: host objects, and values that are no object
HostObjects == { JDict(h, a) : h \in HostnameValues, a \in ApiValues } \cup { JNum, JStr(<<"x">>) }

\* what RDM_HOSTS_JSON may hold
ConfigValues ==
    { JList(l) : l \in UNION { [1..k -> HostObjects] : k \in 0..MaxHosts } }
        \cup { SecondHost, JNum, JStr(<<"x">>), Unparseable }

\* what the file RDM_HOSTS names may hold
FileValues == { JList(<<DefaultHost, SecondHost>>), JList(<< JDict(None, None) >>), JNum, Unparseable }

\* lines 36 to 45 for one element of the list: the exception raised, or "ok"
HostError(host) ==
    IF host.type = "num" THEN "TypeError"
    ELSE IF host.type = "str" THEN "ValueError"
    ELSE IF host.hostname = None THEN "ValueError"
    ELSE IF host.hostname[1].type # "list" THEN "ValueError"
    ELSE IF host.api = None THEN "ValueError"
    ELSE "ok"

\* lines 34 to 45: the exception raised, or "ok"
ValidateHosts(h) ==
    IF h.type = "list"
    THEN IF \E i \in DOMAIN h.items : HostError(h.items[i]) # "ok"
         THEN HostError(h.items[CHOOSE i \in DOMAIN h.items :
                                   /\ HostError(h.items[i]) # "ok"
                                   /\ \A j \in 1..(i - 1) : HostError(h.items[j]) = "ok"])
         ELSE "ok"
    ELSE "ok"

\* lines 21 to 33: the value of self.hosts when validation starts
LoadedHosts(e) ==
    IF e.RDM_HOSTS_JSON # None THEN e.RDM_HOSTS_JSON[1]
    ELSE IF e.RDM_HOSTS # None THEN e.RDM_HOSTS[1]
    ELSE DefaultHosts

\* RDM()
Construct ==
    /\ constructed = "no"
    /\ IF \/ env.RDM_HOSTS # None /\ env.RDM_HOSTS[1] = Unparseable
          \/ env.RDM_HOSTS_JSON # None /\ env.RDM_HOSTS_JSON[1] = Unparseable
       THEN constructed' = "JSONDecodeError" /\ hosts' = hosts
       ELSE /\ constructed' = ValidateHosts(LoadedHosts(env))
            /\ hosts' = IF ValidateHosts(LoadedHosts(env)) = "ok" THEN Some(LoadedHosts(env)) ELSE hosts
    /\ UNCHANGED <<env, detectVars, fetchVars>>

-----------------------------------------------------------------------------
(* detect and content_id. *)

Instances == {1, 2}

\* the locators detect is called with in this model
Sources ==
    { <<"https://h1", "/", "p">>,
      <<"https://h1", "/", "p", "/">>,
      <<"https://h1", "/", "p", "/", "x">>,
      <<"https://h1", "/", "p", "/", "files">>,
      <<"https://h1", "/", "p", "/", "files", "/", "x">>,
      <<"https://h1", "/", "p", "/", "files", "/", "files", "/", "x">>,
      <<"https://h1", "/", "p", "/", "filesx", "/", "x", "?", "q", "/", "r">>,
      <<"https://h1", "/", "/", "p">>,
      <<"https://h3", "/", "p2", "/", "a", "/", "b", "#", "f">>,
      <<"https://h1">>,
      <<"https://other", "/", "p">> }

\* str(uuid.uuid1()) of the n-th call: no two calls of a process give the same
Uuid1(n) == [k \in 1..n |-> "u"]

\* the refs detect is called with: none, HEAD, a tag, the empty string, and
\* the session id an earlier call was given
Refs == { None, Some(<<"HEAD">>), Some(<<"v1">>), Some(<<>>), Some(Uuid1(1)) }

\* str.startswith
StartsWith(s, p) == Len(p) <= Len(s) /\ SubSeq(s, 1, Len(p)) = p

\* line 50
HostMatches(host, source) ==
    \E i \in DOMAIN host.hostname[1].items : StartsWith(source, host.hostname[1].items[i].s)

\* urlparse(source).path of a locator whose first chunk is its scheme and host:
\* what follows, up to the query or the fragment
UrlPath(source) ==
    LET rest == Tail(source)
        stops == { i \in DOMAIN rest : rest[i] \in {"?", "#"} }
    IN IF stops = {} THEN rest
       ELSE SubSeq(rest, 1, (CHOOSE i \in stops : \A j \in stops : i <= j) - 1)

\* the index of the first "/" of s, 0 when there is none
FirstSlash(s) ==
    IF \E i \in DOMAIN s : s[i] = "/"
    THEN CHOOSE i \in DOMAIN s : s[i] = "/" /\ \A j \in 1..(i - 1) : s[j] # "/"
    ELSE 0

StripFilesAll(p) ==
    IF StartsWith(p, <<"files", "/", "files", "/">>) THEN SubSeq(p, 5, Len(p))
    ELSE IF StartsWith(p, <<"files", "/">>) THEN SubSeq(p, 3, Len(p))
    ELSE p

\* lines 55 and 56
StripFiles(p) == IF StartsWith(p, <<"files", "/">>) THEN SubSeq(p, 3, Len(p)) ELSE p

\* lines 51 to 59: self.project_id and self.path
ParseSource(source) ==
    LET u_path == UrlPath(source)
        path == IF StartsWith(u_path, <<"/">>) THEN Tail(u_path) ELSE u_path
    IN IF FirstSlash(path) # 0
       THEN [project_id |-> SubSeq(path, 1, FirstSlash(path) - 1),
             path |-> StripFiles(SubSeq(path, FirstSlash(path) + 1, Len(path)))]
       ELSE [project_id |-> path, path |-> <<>>]

CheckRefDefinedNotNone(ref) == ref # None

\* _check_ref_defined
CheckRefDefined(ref) == ~(ref = None \/ ref = Some(<<"HEAD">>))

\* line 60
SessionId(ref) == IF CheckRefDefined(ref) THEN ref[1] ELSE Uuid1(clock + 1)

Unset == [project_id |-> None, path |-> None, uuid |-> None]

NoMatchFieldsCleared(fields) == Unset

\* line 67: no host matched, and nothing was assigned
NoMatchFields(fields) == fields

\* content_id, None where it raises AttributeError (no detect has matched yet)
ContentId(fields) ==
    IF fields.project_id = None \/ fields.uuid = None THEN None
    ELSE Some(fields.project_id[1] \o <<"-">> \o fields.uuid[1])

\* the index of the first host of self.hosts that matches, 0 when none does
FirstMatch(source) ==
    LET l == hosts[1].items
    IN IF \E i \in DOMAIN l : HostMatches(l[i], source)
       THEN CHOOSE i \in DOMAIN l :
              HostMatches(l[i], source) /\ \A j \in 1..(i - 1) : ~HostMatches(l[j], source)
       ELSE 0

\* instance i's detect(source, ref)
Detect(i, source, ref) ==
    /\ constructed = "ok"
    /\ Len(calls) < MaxDetects
    /\ IF FirstMatch(source) # 0
       THEN LET fields == [project_id |-> Some(ParseSource(source).project_id),
                           path |-> Some(ParseSource(source).path),
                           uuid |-> Some(SessionId(ref))]
                result == [project_id |-> fields.project_id[1], path |-> fields.path[1],
                           host |-> hosts[1].items[FirstMatch(source)], uuid |-> fields.uuid[1]]
            IN /\ self' = [self EXCEPT ![i] = fields]
               /\ clock' = IF CheckRefDefined(ref) THEN clock ELSE clock + 1
               /\ calls' = Append(calls, [inst |-> i, source |-> source, ref |-> ref,
                                          result |-> Some(result),
                                          content_id |-> ContentId(fields)])
       ELSE /\ self' = [self EXCEPT ![i] = NoMatchFields(self[i])]
            /\ clock' = clock
            /\ calls' = Append(calls, [inst |-> i, source |-> source, ref |-> ref,
                                       result |-> None,
                                       content_id |-> ContentId(NoMatchFields(self[i]))])
    /\ UNCHANGED <<configVars, fetchVars>>

-----------------------------------------------------------------------------
(* Strings and paths of fetch. *)

output_dir == <<"out">>

\* names the remote service may give a storage or a folder
FolderNames == { <<"a">>, <<"b">>, <<"a", "/", "b">> }

\* names the remote service may give a file
FileNames == { <<"a">>, <<"b">>, <<"a", "\\", "b">> }

\* sequences over S of length at most n without a repeated element
DistinctSeqs(S, n) ==
    { s \in UNION { [1..k -> S] : k \in 0..n } :
        \A i, j \in DOMAIN s : i # j => s[i] # s[j] }

\* the test of lines 136 and 147
HasSeparator(name) == \E i \in DOMAIN name : name[i] \in {"/", "\\"}

\* os.path.join(a, b)
Join(a, b) ==
    IF b # <<>> /\ b[1] = "/" THEN b
    ELSE IF a = <<>> \/ a[Len(a)] = "/" THEN a \o b
    ELSE a \o <<"/">> \o b

\* str.rstrip("/")
RECURSIVE RStrip(_)
RStrip(s) == IF s # <<>> /\ s[Len(s)] = "/" THEN RStrip(SubSeq(s, 1, Len(s) - 1)) ELSE s

\* api_url of line 104
ApiUrl(host) ==
    LET api == host.api[1].s
    IN IF api # <<>> /\ api[Len(api)] = "/" THEN SubSeq(api, 1, Len(api) - 1) ELSE api

\* the line of lines 106 to 108
FetchingLine(s) ==
    [kind |-> "Fetching", path |-> s.path, project_id |-> s.project_id, api |-> ApiUrl(s.host)]

\* the line of line 145
FetchLine(file_path, local_path) ==
    [kind |-> "Fetch", remote |-> file_path, local |-> local_path, out |-> output_dir]

ErrorItem(e) == [kind |-> "error", error |-> e]

EndMarker == [kind |-> "end"]

\* the directories os.makedirs(p) needs: p and the paths p passes through
Ancestors(p) ==
    { SubSeq(p, 1, i - 1) : i \in { j \in DOMAIN p : p[j] = "/" } } \cup {p}

\* str.split("/") of a string that is not empty
RECURSIVE Split(_)
Split(s) ==
    IF FirstSlash(s) = 0 THEN <<s>>
    ELSE <<SubSeq(s, 1, FirstSlash(s) - 1)>> \o Split(SubSeq(s, FirstSlash(s) + 1, Len(s)))

\* what a call of the remote client may raise: RuntimeError when it finds
\* nothing (as line 121 does), or the fault of the transport below it
RemoteErrors == {"RuntimeError", "TransportError"}

-----------------------------------------------------------------------------
(* The local filesystem. *)

IsDir(p) == p \in fsDirs

IsFile(p) == \E r \in fsFiles : r.path = p

\* the file at p after open(p, "wb") and a write of bytes b
WriteAt(p, b) == { r \in fsFiles : r.path # p } \cup { [path |-> p, bytes |-> b] }

-----------------------------------------------------------------------------
(* The generators of the walk.  The remote service answers a listing when  *)
(* the walk asks for it: the tree is what it has answered so far.          *)

Frame(kind, key, local_dir, names, files, folders) ==
    [kind |-> kind, key |-> key, local_dir |-> local_dir, names |-> names,
     files |-> files, folders |-> folders, pending |-> None]

Top == stack[Len(stack)]

ExhaustedFilesOnly(f) == f.files = <<>> /\ f.pending = None

\* a generator of _fetch_storage, or the loop of line 125, has nothing left to do
Exhausted(f) == f.files = <<>> /\ f.folders = <<>> /\ f.pending = None

\* the generators that have nothing left return to their callers
RECURSIVE Unwind(_)
Unwind(st) ==
    IF st = <<>> THEN <<>>
    ELSE IF Exhausted(st[Len(st)]) THEN Unwind(SubSeq(st, 1, Len(st) - 1))
    ELSE st

ReplaceTop(f) == [stack EXCEPT ![Len(stack)] = f]

\* what the remote service lists for a storage or folder
Listings ==
    { [files |-> fl, folders |-> dl] :
        fl \in DistinctSeqs(FileNames, filesLeft),
        dl \in DistinctSeqs(FolderNames, foldersLeft) }

-----------------------------------------------------------------------------
(* fetch: the task of _fetch_with_error and the generator that drains it. *)

LoopRunningAlways == cpc \in {"waiting", "yielded"}

\* line 83: loop.run_until_complete(queue.get()) is the only place the event loop
\* runs, so the only place the task of line 79 takes a step
LoopRunning == cpc = "waiting"

PutErrorSwallowed(q, e) == Append(q, EndMarker)

\* _fetch raises e: except puts e, finally puts None
PutErrorAndEnd(q, e) == Append(Append(q, ErrorItem(e)), EndMarker)

PutEndMissing(q) == q

\* _fetch returns: finally puts None
PutEnd(q) == Append(q, EndMarker)

\* lines 95 to 98, which run with no await that suspends (the queue is unbounded)
Raise(e) ==
    /\ queue' = PutErrorAndEnd(queue, e)
    /\ raised' = Some(e)
    /\ ppc' = "done"
    /\ stack' = <<>>

\* the walk goes on with generators st and queue q, or _fetch returns
Continue(st, q) ==
    /\ stack' = Unwind(st)
    /\ raised' = raised
    /\ IF Unwind(st) = <<>>
       THEN queue' = PutEnd(q) /\ ppc' = "done"
       ELSE queue' = q /\ ppc' = "walk"

\* the first next() on the generator fetch(s, output_dir) returned: lines 77 to
\* 79, then the loop of line 82
FetchStartWith(s) ==
    /\ cpc = "init"
    /\ spec' = s
    /\ cpc' = "waiting"
    /\ ppc' = "start"
    /\ queue' = <<>>
    /\ UNCHANGED <<configVars, detectVars, remote, filesLeft, foldersLeft, stack, fsFiles,
                   fsDirs, wroteUnder, emitted, raised, received, failure>>

\* _fetch up to the await of line 113
FetchBegin ==
    /\ LoopRunning
    /\ ppc = "start"
    /\ queue' = Append(queue, FetchingLine(spec[1]))
    /\ emitted' = Append(emitted, FetchingLine(spec[1]))
    /\ ppc' = "project"
    /\ UNCHANGED <<configVars, detectVars, spec, remote, filesLeft, foldersLeft, stack, fsFiles, fsDirs, wroteUnder,
                   cpc, raised, received, failure>>

\* osf.project(project_id) answers
FetchProject ==
    /\ LoopRunning
    /\ ppc = "project"
    /\ \/ /\ ppc' = "resolve"
          /\ UNCHANGED <<queue, raised, stack>>
       \/ \E e \in RemoteErrors : Raise(e)
    /\ UNCHANGED <<configVars, detectVars, spec, remote, filesLeft, foldersLeft, fsFiles, fsDirs, wroteUnder,
                   cpc, emitted, received, failure>>

\* lines 115 to 127 up to the first generator: the root is resolved and listed
FetchRoot ==
    /\ LoopRunning
    /\ ppc = "resolve"
    /\ \/ /\ Len(spec[1].path) > 0
          /\ \E l \in Listings :
               LET key == Split(RStrip(spec[1].path))
                   f == Frame("folder", key, None, <<>>, l.files, l.folders)
               IN /\ remote' = remote \cup { [key |-> key, files |-> l.files, folders |-> l.folders] }
                  /\ filesLeft' = filesLeft - Len(l.files)
                  /\ foldersLeft' = foldersLeft - Len(l.folders)
                  /\ Continue(<<f>>, queue)
       \/ /\ Len(spec[1].path) > 0
          /\ \E e \in RemoteErrors : Raise(e)
          /\ UNCHANGED <<remote, filesLeft, foldersLeft>>
       \/ /\ FirstSlash(RStrip(spec[1].path)) # 0
          /\ Raise("AttributeError")
          /\ UNCHANGED <<remote, filesLeft, foldersLeft>>
       \/ /\ Len(spec[1].path) = 0
          /\ \E sl \in DistinctSeqs(FolderNames, foldersLeft) :
               /\ remote' = remote \cup { [key |-> <<>>, files |-> <<>>, folders |-> sl] }
               /\ foldersLeft' = foldersLeft - Len(sl)
               /\ filesLeft' = filesLeft
               /\ Continue(<<Frame("project", <<>>, None, <<>>, <<>>, sl)>>, queue)
       \/ /\ Len(spec[1].path) = 0
          /\ Raise("TransportError")
          /\ UNCHANGED <<remote, filesLeft, foldersLeft>>
    /\ UNCHANGED <<configVars, detectVars, spec, fsFiles, fsDirs, wroteUnder, cpc, emitted, received, failure>>

\* line 125 and 126: the next storage of the project, its local directory its name
FetchNextStorage ==
    /\ LoopRunning
    /\ ppc = "walk"
    /\ Top.kind = "project"
    /\ LET storage == Head(Top.folders)
           rest == [Top EXCEPT !.folders = Tail(Top.folders)]
       IN \/ \E l \in Listings :
               LET f == Frame("folder", <<storage>>, Some(storage), <<storage>>,
                              l.files, l.folders)
               IN /\ remote' = remote \cup { [key |-> <<storage>>, files |-> l.files, folders |-> l.folders] }
                  /\ filesLeft' = filesLeft - Len(l.files)
                  /\ foldersLeft' = foldersLeft - Len(l.folders)
                  /\ Continue(Append(ReplaceTop(rest), f), queue)
          \/ /\ Raise("TransportError")
             /\ UNCHANGED <<remote, filesLeft, foldersLeft>>
    /\ UNCHANGED <<configVars, detectVars, spec, fsFiles, fsDirs, wroteUnder, cpc, emitted, received, failure>>

\* lines 146 to 150: the next folder of a storage or folder
FetchStorageFolder ==
    /\ LoopRunning
    /\ ppc = "walk"
    /\ Top.kind = "folder"
    /\ Top.files = <<>>
    /\ Top.pending = None
    /\ LET folder == Head(Top.folders)
           rest == [Top EXCEPT !.folders = Tail(Top.folders)]
           local_folder_dir ==
               IF Top.local_dir # None THEN Join(Top.local_dir[1], folder) ELSE folder
       IN IF HasSeparator(folder)
          THEN /\ Raise("ValueError")
               /\ UNCHANGED <<remote, filesLeft, foldersLeft>>
          ELSE \/ \E l \in Listings :
                    LET key == Append(Top.key, folder)
                        f == Frame("folder", key, Some(local_folder_dir),
                                   Append(Top.names, folder), l.files, l.folders)
                    IN /\ remote' = remote \cup { [key |-> key, files |-> l.files, folders |-> l.folders] }
                       /\ filesLeft' = filesLeft - Len(l.files)
                       /\ foldersLeft' = foldersLeft - Len(l.folders)
                       /\ Continue(Append(ReplaceTop(rest), f), queue)
               \/ /\ Raise("TransportError")
                  /\ UNCHANGED <<remote, filesLeft, foldersLeft>>
    /\ UNCHANGED <<configVars, detectVars, spec, fsFiles, fsDirs, wroteUnder, cpc, emitted, received, failure>>

\* lines 135 to 144: the next file of a storage or folder is written
FetchStorageFile ==
    /\ LoopRunning
    /\ ppc = "walk"
    /\ Top.kind = "folder"
    /\ Top.files # <<>>
    /\ Top.pending = None
    /\ LET name == Head(Top.files)
           local_dir == Top.local_dir
           local_path == IF local_dir # None THEN Join(local_dir[1], name) ELSE name
           local_dir_path == IF local_dir # None THEN Join(output_dir, local_dir[1]) ELSE output_dir
           local_file_path == Join(output_dir, local_path)
           file_path == Append(Top.key, name)
           made == IF IsDir(local_dir_path) THEN fsDirs ELSE fsDirs \cup Ancestors(local_dir_path)
           madeUnder == IF IsDir(local_dir_path) THEN wroteUnder ELSE wroteUnder \cup {Top.names}
       IN IF HasSeparator(name)
          THEN /\ Raise("ValueError")
               /\ UNCHANGED <<fsFiles, fsDirs, wroteUnder>>
          ELSE IF ~IsDir(local_dir_path) /\ \E a \in Ancestors(local_dir_path) : IsFile(a)
          THEN /\ Raise("FileExistsError")
               /\ UNCHANGED <<fsFiles, fsDirs, wroteUnder>>
          ELSE IF local_file_path \in made
          THEN /\ Raise("IsADirectoryError")
               /\ fsDirs' = made
               /\ wroteUnder' = madeUnder
               /\ UNCHANGED fsFiles
          ELSE /\ fsDirs' = made
               /\ wroteUnder' = madeUnder \cup {Append(Top.names, name)}
               /\ \/ /\ fsFiles' = WriteAt(local_file_path, Some(file_path))
                     /\ stack' = ReplaceTop([Top EXCEPT !.pending = Some(FetchLine(file_path, local_path))])
                     /\ UNCHANGED <<queue, raised, ppc>>
                  \/ /\ fsFiles' = WriteAt(local_file_path, None)
                     /\ Raise("TransportError")
    /\ UNCHANGED <<configVars, detectVars, spec, remote, filesLeft, foldersLeft, cpc, emitted, received, failure>>

\* line 145, passed up through lines 150 and 151 to the put of line 123 or 127
FetchPutLine ==
    /\ LoopRunning
    /\ ppc = "walk"
    /\ Top.pending # None
    /\ emitted' = Append(emitted, Top.pending[1])
    /\ Continue(ReplaceTop([Top EXCEPT !.pending = None, !.files = Tail(Top.files)]),
                Append(queue, Top.pending[1]))
    /\ UNCHANGED <<configVars, detectVars, spec, remote, filesLeft, foldersLeft, fsFiles, fsDirs, wroteUnder,
                   cpc, received, failure>>

\* a later next() on the generator: back to line 83
ConsumerNext ==
    /\ cpc = "yielded"
    /\ cpc' = "waiting"
    /\ UNCHANGED <<configVars, detectVars, spec, remote, filesLeft, foldersLeft, stack, fsFiles, fsDirs, wroteUnder,
                   queue, ppc, emitted, raised, received, failure>>

\* lines 83 to 90: queue.get() returns an item
ConsumerGet ==
    /\ cpc = "waiting"
    /\ queue # <<>>
    /\ queue' = Tail(queue)
    /\ LET result == Head(queue)
       IN IF result.kind = "error"
          THEN cpc' = "failed" /\ failure' = Some(result.error) /\ received' = received
          ELSE IF result.kind = "end"
          THEN cpc' = "done" /\ UNCHANGED <<failure, received>>
          ELSE cpc' = "yielded" /\ received' = Append(received, result) /\ failure' = failure
    /\ UNCHANGED <<configVars, detectVars, spec, remote, filesLeft, foldersLeft, stack, fsFiles, fsDirs, wroteUnder,
                   ppc, emitted, raised>>

\* the consumer drops the generator at a yield: GeneratorExit, then line 90
ConsumerClose ==
    /\ cpc = "yielded"
    /\ cpc' = "closed"
    /\ UNCHANGED <<configVars, detectVars, spec, remote, filesLeft, foldersLeft, stack, fsFiles, fsDirs, wroteUnder,
                   queue, ppc, emitted, raised, received, failure>>

Producer ==
    \/ FetchBegin
    \/ FetchProject
    \/ FetchRoot
    \/ FetchNextStorage
    \/ FetchStorageFolder
    \/ FetchStorageFile
    \/ FetchPutLine

-----------------------------------------------------------------------------
(* Initial states. *)

\* no instance yet
ConfigIdle == constructed = "no" /\ hosts = None

\* an instance built from the given configuration
ConfigDone(h) == constructed = "ok" /\ hosts = Some(h)

DetectIdle == self = [i \in Instances |-> Unset] /\ clock = 0 /\ calls = <<>>

\* no fetch yet; the remote service will list at most nf files and nd folders
FetchIdle(nf, nd) ==
    /\ remote = {}
    /\ filesLeft = nf
    /\ foldersLeft = nd
    /\ stack = <<>>
    /\ fsFiles = {}
    /\ fsDirs = {output_dir}
    /\ wroteUnder = {}
    /\ queue = <<>>
    /\ ppc = "none"
    /\ cpc = "init"
    /\ emitted = <<>>
    /\ raised = None
    /\ received = <<>>
    /\ failure = None

\* the environment of a process about to build the provider
ConfigInit ==
    /\ env \in [RDM_HOSTS : {None} \cup { Some(v) : v \in FileValues },
                 RDM_HOSTS_JSON : {None} \cup { Some(v) : v \in ConfigValues }]
    /\ ConfigIdle
    /\ DetectIdle
    /\ spec = None
    /\ FetchIdle(0, 0)

SpecConfig == ConfigInit /\ [][Construct]_vars

NoEnv == [RDM_HOSTS |-> None, RDM_HOSTS_JSON |-> None]

\* two instances built with the default host, or with two hosts configured
DetectInit ==
    /\ \/ env = NoEnv /\ ConfigDone(DefaultHosts)
       \/ /\ env = [RDM_HOSTS |-> None, RDM_HOSTS_JSON |-> Some(JList(<<DefaultHost, SecondHost>>))]
          /\ ConfigDone(JList(<<DefaultHost, SecondHost>>))
    /\ DetectIdle
    /\ spec = None
    /\ FetchIdle(0, 0)

DetectNext == \E i \in Instances, source \in Sources, ref \in Refs : Detect(i, source, ref)

SpecDetect == DetectInit /\ [][DetectNext]_vars

\* the spec dicts fetch is called with: no sub-path, a storage, a folder of a storage
FetchSpecs ==
    { [project_id |-> <<"p">>, path |-> p, host |-> DefaultHost, uuid |-> <<"v1">>] :
        p \in { <<>>, <<"a">>, <<"a", "/", "b", "/">> } }

\* fetch is about to be called; the remote service will list at most nf files
\* and nd storages and folders
FetchInitWith(nf, nd) ==
    /\ env = NoEnv
    /\ ConfigDone(DefaultHosts)
    /\ DetectIdle
    /\ spec \in { Some(s) : s \in FetchSpecs }
    /\ FetchIdle(nf, nd)

FetchInit == FetchInitWith(MaxFiles, MaxFolders)

FetchStart == FetchStartWith(spec)

FetchNext ==
    \/ FetchStart
    \/ FetchBegin
    \/ FetchProject
    \/ FetchRoot
    \/ FetchNextStorage
    \/ FetchStorageFolder
    \/ FetchStorageFile
    \/ FetchPutLine
    \/ ConsumerNext
    \/ ConsumerGet
    \/ ConsumerClose

SpecFetch == FetchInit /\ [][FetchNext]_vars

\* the locators and refs of the detect calls made around a fetch
LifeSources ==
    { <<"https://h1", "/", "p">>,
      <<"https://h3", "/", "p2", "/", "files", "/", "a", "/">>,
      <<"https://other", "/", "p">> }

LifeRefs == { None }

\* one instance, no detect call made yet, no fetch started
LifeInit ==
    /\ env = [RDM_HOSTS |-> None, RDM_HOSTS_JSON |-> Some(JList(<<DefaultHost, SecondHost>>))]
    /\ ConfigDone(JList(<<DefaultHost, SecondHost>>))
    /\ DetectIdle
    /\ spec = None
    /\ FetchIdle(LifeMaxFiles, LifeMaxFolders)

\* a detect call of the code that drives the generator, so not from inside next()
LifeDetect ==
    /\ cpc # "waiting"
    /\ \E source \in LifeSources, ref \in LifeRefs : Detect(1, source, ref)

\* fetch is called with a spec dict some detect call returned
LifeFetchStart ==
    \E k \in DOMAIN calls : calls[k].result # None /\ FetchStartWith(calls[k].result)

LifeNext ==
    \/ LifeDetect
    \/ LifeFetchStart
    \/ FetchBegin
    \/ FetchProject
    \/ FetchRoot
    \/ FetchNextStorage
    \/ FetchStorageFolder
    \/ FetchStorageFile
    \/ FetchPutLine
    \/ ConsumerNext
    \/ ConsumerGet
    \/ ConsumerClose

SpecLife == LifeInit /\ [][LifeNext]_vars

\* the consumer keeps calling next(), the event loop runs the task while the
\* consumer waits in it, and the remote service and the disk answer
SpecFetchFair ==
    /\ FetchInitWith(FairMaxFiles, FairMaxFolders)
    /\ [][FetchNext]_vars
    /\ WF_vars(FetchStart)
    /\ WF_vars(Producer)
    /\ WF_vars(ConsumerNext)
    /\ WF_vars(ConsumerGet)

-----------------------------------------------------------------------------
(* The claims about fetch. *)

\* _fetch returned without raising
NormalEnd == ppc = "done" /\ raised = None

\* the remote node the walk starts from: the project, or what the sub-path names
RootKey == IF spec[1].path = <<>> THEN <<>> ELSE Split(RStrip(spec[1].path))

\* the names along a path, written with "/" between them
RECURSIVE Slashed(_)
Slashed(names) ==
    IF names = <<>> THEN <<>>
    ELSE IF Len(names) = 1 THEN names[1]
    ELSE names[1] \o <<"/">> \o Slashed(Tail(names))

\* the names from the root down to the node with this key, the root's own left out
BelowRoot(key) == SubSeq(key, Len(RootKey) + 1, Len(key))

RemoteFiles ==
    UNION { { [key |-> r.key, name |-> r.files[i]] : i \in DOMAIN r.files } : r \in remote }

IsPrefix(s, t) == Len(s) <= Len(t) /\ SubSeq(t, 1, Len(s)) = s

\* C1: after a fetch that ends normally the local files are exactly the remote
\* files under the root(s), each at outputDir/<names from the root down>/<name>
\* (the storage's name first when there is no sub-path) with its own bytes.
C1_LocalFilesMirrorRemote ==
    NormalEnd =>
        fsFiles = { [path |-> output_dir \o <<"/">> \o Slashed(Append(BelowRoot(f.key), f.name)),
                     bytes |-> Some(Append(f.key, f.name))] : f \in RemoteFiles }

\* C2: when _fetch raises, the consumer gets the lines emitted before the error,
\* in order, then that error; never a line after it, never a normal end.
C2_ErrorReachesConsumer ==
    /\ IsPrefix(received, emitted)
    /\ raised # None => cpc # "done"
    /\ cpc = "failed" => raised # None /\ failure = raised /\ received = emitted

\* an invalid name aborts a fetch that had already yielded a "Fetch:" line
C2_Witness == cpc = "failed" /\ failure = Some("ValueError") /\ Len(received) >= 2

RECURSIVE WalkLines(_)
RECURSIVE FoldersLines(_, _)
\* the "Fetch:" lines of a depth-first walk from the node with this key: its
\* files in listing order, then each of its folders in listing order
WalkLines(key) ==
    IF \E r \in remote : r.key = key
    THEN LET l == CHOOSE r \in remote : r.key = key
         IN [i \in DOMAIN l.files |->
                [kind |-> "Fetch", remote |-> Append(key, l.files[i]),
                 local |-> Slashed(Append(BelowRoot(key), l.files[i])), out |-> output_dir]]
            \o FoldersLines(key, l.folders)
    ELSE << [kind |-> "never listed"] >>
FoldersLines(key, folders) ==
    IF folders = <<>> THEN <<>>
    ELSE WalkLines(Append(key, Head(folders))) \o FoldersLines(key, Tail(folders))

\* C3: a fetch that ends normally yields one "Fetching" line, then one "Fetch:"
\* line per file in depth-first order (files of a level before its folders, all
\* in listing order), received in the order the walk emitted them.
C3_LinesInWalkOrder ==
    /\ IsPrefix(received, emitted)
    /\ cpc = "done" =>
         /\ received = emitted
         /\ Len(received) >= 1
         /\ received[1].kind = "Fetching"
         /\ Tail(received) = WalkLines(RootKey)

\* a normal end after a level with a file and two folders, two files in all
C3_Witness ==
    /\ cpc = "done"
    /\ Len(received) = 3
    /\ \E r \in remote : Len(r.files) = 1 /\ Len(r.folders) = 2

\* C4 as stated: the walk can always take its next step, whatever the consumer does.
C4_WalkIndependentOfConsumer == ppc \notin {"none", "done"} => ENABLED Producer

\* C4 as amended: the walk takes a step only while the consumer waits for the
\* next item; while the consumer holds an item, or has dropped the generator,
\* the walk stands still.
C4_WalkStepsOnlyWhileConsumerWaits ==
    [][ (ppc # "none" /\ <<ppc, stack, remote, emitted, raised, wroteUnder>>'
                            # <<ppc, stack, remote, emitted, raised, wroteUnder>>)
        => cpc = "waiting" ]_vars

\* the consumer dropped the generator with one file written and another waiting
C4_Witness ==
    /\ cpc = "closed"
    /\ ppc = "walk"
    /\ Top.files # <<>>
    /\ Top.pending = None
    /\ fsFiles # {}

\* C5: no directory is made and no file written at a local path built from a
\* remote name (of a file, a folder or a storage) that holds a path separator.
C5_NoSeparatorInWrittenPath ==
    \A names \in wroteUnder : \A i \in DOMAIN names : ~HasSeparator(names[i])

\* C9: with a consumer that keeps taking items every fetch ends, normally or
\* with the error _fetch raised; the consumer never waits forever.
C9_FetchEnds ==
    /\ [](cpc # "closed") => <>(cpc \in {"done", "failed"})
    /\ [](cpc = "done" => raised = None /\ failure = None)
    /\ [](cpc = "failed" => raised # None /\ failure = raised)

\* a fetch that ended normally after a "Fetch:" line
C9_Witness == cpc = "done" /\ Len(received) >= 2 /\ queue = <<>>

-----------------------------------------------------------------------------
(* The claims about construction and detect. *)

ClaimedValidHost(h) ==
    /\ h.type = "dict"
    /\ h.hostname # None
    /\ h.hostname[1].type = "list"
    /\ h.hostname[1].items # <<>>
    /\ h.api # None
    /\ h.api[1].type = "str"
    /\ h.api[1].s # <<>>

\* C6: construction succeeds only if the configuration in effect is a list of
\* hosts, each with a non-empty hostname list and a non-empty api string.
C6_ConstructedOnlyIfValid ==
    constructed = "ok" =>
        /\ hosts[1].type = "list"
        /\ \A i \in DOMAIN hosts[1].items : ClaimedValidHost(hosts[1].items[i])

Matched(k) == calls[k].result # None

RefGiven(k) == calls[k].ref # None /\ calls[k].ref # Some(<<"HEAD">>)

\* C7: a matching detect call with a ref other than HEAD takes the ref as session
\* id and has content_id "<projectId>-<ref>"; two matching calls without such a
\* ref never get the same session id, nor the same content_id for one project.
C7_SessionIds ==
    /\ \A k \in DOMAIN calls :
         Matched(k) /\ RefGiven(k) =>
            /\ calls[k].result[1].uuid = calls[k].ref[1]
            /\ calls[k].content_id
                 = Some(calls[k].result[1].project_id \o <<"-">> \o calls[k].ref[1])
    /\ \A k, m \in DOMAIN calls :
         k < m /\ Matched(k) /\ Matched(m) /\ ~RefGiven(k) /\ ~RefGiven(m) =>
            /\ calls[k].result[1].uuid # calls[m].result[1].uuid
            /\ calls[k].result[1].project_id = calls[m].result[1].project_id
                 => calls[k].content_id # calls[m].content_id

\* two instances detect the same project, one without ref and one with HEAD
C7_Witness ==
    /\ Len(calls) = 2
    /\ Matched(1) /\ Matched(2)
    /\ calls[1].ref = None /\ calls[2].ref = Some(<<"HEAD">>)
    /\ calls[1].inst # calls[2].inst
    /\ calls[1].result[1].project_id = calls[2].result[1].project_id

\* the part of a locator after its host: what follows the first chunk and one
\* "/", up to the query or fragment
LocatorPath(source) ==
    LET after == SubSeq(source, 2, Len(source))
        cut == IF \E i \in DOMAIN after : after[i] \in {"?", "#"}
               THEN SubSeq(after, 1, (CHOOSE i \in DOMAIN after :
                                        /\ after[i] \in {"?", "#"}
                                        /\ \A j \in 1..(i - 1) : after[j] \notin {"?", "#"}) - 1)
               ELSE after
    IN IF cut # <<>> /\ cut[1] = "/" THEN SubSeq(cut, 2, Len(cut)) ELSE cut

\* C8: for a matching locator with path p after the host: without a "/" in p the
\* project id is p and the sub-path is empty; otherwise p is the project id, a
\* "/", one "files/" if the rest starts with it, and the sub-path.
C8_PathSplit ==
    \A k \in DOMAIN calls :
        Matched(k) =>
            LET p == LocatorPath(calls[k].source)
                id == calls[k].result[1].project_id
                sub == calls[k].result[1].path
            IN IF \A i \in DOMAIN p : p[i] # "/"
               THEN id = p /\ sub = <<>>
               ELSE /\ \A i \in DOMAIN id : id[i] # "/"
                    /\ \/ p = id \o <<"/", "files", "/">> \o sub
                       \/ /\ p = id \o <<"/">> \o sub
                          /\ ~(Len(sub) >= 2 /\ sub[1] = "files" /\ sub[2] = "/")

\* <id>/files/files/x gave the sub-path files/x
C8_Witness ==
    \E k \in DOMAIN calls :
        /\ calls[k].source = <<"https://h1", "/", "p", "/", "files", "/", "files", "/", "x">>
        /\ Matched(k)
        /\ calls[k].result[1].path = <<"files", "/", "x">>

\* the last detect call of instance i that matched a host, 0 when none did
LastMatch(i) ==
    LET ks == { k \in DOMAIN calls : calls[k].inst = i /\ Matched(k) }
    IN IF ks = {} THEN 0 ELSE CHOOSE k \in ks : \A m \in ks : m <= k

\* C10: whatever detect calls and fetch steps have happened, an instance holds
\* the project id, sub-path and session id of its last detect call that matched
\* (none before the first), and content_id is made of them.
C10_FieldsOfLastMatch ==
    \A i \in Instances :
        IF LastMatch(i) = 0 THEN self[i] = Unset
        ELSE LET r == calls[LastMatch(i)].result[1]
             IN /\ self[i] = [project_id |-> Some(r.project_id), path |-> Some(r.path),
                              uuid |-> Some(r.uuid)]
                /\ ContentId(self[i]) = Some(r.project_id \o <<"-">> \o r.uuid)

\* a match, a whole fetch that wrote a file, then a call that matched no host
C10_Witness ==
    /\ Len(calls) = 2
    /\ Matched(1) /\ ~Matched(2)
    /\ ppc = "done"
    /\ fsFiles # {}
    /\ self[1].uuid = Some(Uuid1(1))

====
